---- MODULE Spec2Model ----
(***************************************************************************)
(* Batch orchestration core of the privacy-policy analyzer                 *)
(* (src/src/analyzer.py): PolicyAnalyzer.analyze_policy, the per-record    *)
(* loop of PolicyAnalyzer.process_batch, the flattening helpers and the    *)
(* CSV checkpoint.  The external classifier is a stub fixed in the initial *)
(* state: for every input row it answers a number of rate-limit signals    *)
(* and then one final outcome.                                             *)
(***************************************************************************)
EXTENDS Integers, Sequences, FiniteSets, TLC

(***************************************************************************)
(* Program constants                                                       *)
(***************************************************************************)
max_chars == 100000
MinPolicyLen == 100
RateLimitSleep == 60
CheckpointEvery == 50
\* len("\n\n[TRUNCATED]")
TruncMarkerLen == 13

(***************************************************************************)
(* Bounds of the model                                                     *)
(***************************************************************************)
\* rows of the input file in the specification Spec
MaxRows == 3
\* nested analyze_policy frames the interpreter allows (CPython's default
\* recursion limit is 1000 frames; scaled down)
PyRecursionLimit == 3
\* rows beyond CheckpointEvery in the specification SpecLong
LongExtra == 2

(***************************************************************************)
(* Python values                                                           *)
(***************************************************************************)
\* float('nan'): what pandas holds for an empty CSV cell or a missing key
NaN == "<NaN>"
\* None: JSON null
PyNone == "<None>"

Get(d, k, default) == IF k \in DOMAIN d THEN d[k] ELSE default

RECURSIVE Join(_, _)
\* sep.join(s)
Join(sep, s) ==
    IF s = <<>> THEN ""
    ELSE IF Len(s) = 1 THEN s[1]
    ELSE s[1] \o sep \o Join(sep, Tail(s))

Min(a, b) == IF a < b THEN a ELSE b

(***************************************************************************)
(* Policy texts.  A text is lead whitespace characters, core characters    *)
(* (the first and the last of them not whitespace), trail whitespace       *)
(* characters and, after truncation, the marker.  isna marks a NaN cell.   *)
(***************************************************************************)
Txt(lead, core, trail) ==
    [isna |-> FALSE, lead |-> lead, core |-> core, trail |-> trail, marker |-> 0]
NaNText == [isna |-> TRUE, lead |-> 0, core |-> 0, trail |-> 0, marker |-> 0]

\* len(policy_text)
TextLen(t) == t.lead + t.core + t.trail + t.marker * TruncMarkerLen
\* len(str(policy_text).strip())
StrippedLen(t) ==
    IF t.marker > 0 THEN TextLen(t) - t.lead
    ELSE t.core

\* policy_text[:max_chars] + "\n\n[TRUNCATED]" when too long
TruncateKeepsMarker(t) ==
    IF TextLen(t) > max_chars
    THEN [isna |-> FALSE,
          lead |-> Min(t.lead, max_chars),
          core |-> Min(t.core, max_chars - Min(t.lead, max_chars)),
          trail |-> Min(t.trail, max_chars - Min(t.lead, max_chars)
                                  - Min(t.core, max_chars - Min(t.lead, max_chars))),
          marker |-> t.marker + 1]
    ELSE t
TruncateMut(t) ==
    IF TextLen(t) >= max_chars
    THEN [isna |-> FALSE,
          lead |-> Min(t.lead, max_chars),
          core |-> Min(t.core, max_chars - Min(t.lead, max_chars)),
          trail |-> Min(t.trail, max_chars - Min(t.lead, max_chars)
                                  - Min(t.core, max_chars - Min(t.lead, max_chars))),
          marker |-> 1]
    ELSE t
Truncate(t) ==
    IF TextLen(t) > max_chars
    THEN [isna |-> FALSE,
          lead |-> Min(t.lead, max_chars),
          core |-> Min(t.core, max_chars - Min(t.lead, max_chars)),
          trail |-> Min(t.trail, max_chars - Min(t.lead, max_chars)
                                  - Min(t.core, max_chars - Min(t.lead, max_chars))),
          marker |-> 1]
    ELSE t

\* pd.isna(policy_text) or len(str(policy_text).strip()) < 100
IsShortMut(t) == t.isna \/ TextLen(t) < MinPolicyLen
IsShortOnlyNa(t) == t.isna
IsShortAtThreshold(t) == t.isna \/ StrippedLen(t) <= MinPolicyLen
IsShort(t) == t.isna \/ StrippedLen(t) < MinPolicyLen

(***************************************************************************)
(* Result schema (src/src/models.py).  A JSON value is [t, v]: a dict      *)
(* (v: key -> value), a list (v: sequence) or null.                        *)
(***************************************************************************)
JDict(f) == [t |-> "dict", v |-> f]
JList(s) == [t |-> "list", v |-> s]
\* JSON null, and Python's None
JNull == [t |-> "null", v |-> <<>>]

COPPAConsentMethod ==
    {"signed_consent_form", "credit_debit_card", "toll_free_phone", "video_conference",
     "government_id", "knowledge_based_auth", "email_plus", "school_consent", "other",
     "not_specified", "not_applicable"}
COPPAException ==
    {"school_authorization", "one_time_response", "internal_operations", "child_safety",
     "multiple_contact", "none_claimed", "not_applicable"}
GDPRConsentMethod ==
    {"written_consent", "email_verification", "parent_account_linking",
     "video_phone_verification", "id_document", "reasonable_efforts", "other",
     "not_specified", "not_applicable"}
GDPRLawfulBasis ==
    {"consent", "contract", "legal_obligation", "vital_interests", "public_task",
     "legitimate_interests", "preventive_counseling", "not_specified", "not_applicable"}

\* the 9 boolean indicators, in the order of the output row
Indicators ==
    <<"data_collection_disclosure", "data_use_purpose_specification",
      "third_party_sharing_disclosure", "parental_consent_mechanism",
      "coppa_ferpa_compliance_mention", "data_retention_policy", "user_data_rights",
      "data_security_encryption", "tracking_technologies_disclosure">>
IndicatorSet == {Indicators[i] : i \in 1..Len(Indicators)}

Range(s) == {s[i] : i \in 1..Len(s)}

\* ThirdPartyDetail, extra = forbid
ThirdPartyDetailValid(d) == DOMAIN d = {"name", "purpose", "data_shared"}

\* COPPAAnalysis, extra = forbid
COPPAAnalysisValid(c) ==
    /\ c.t = "dict"
    /\ DOMAIN c.v = {"mentions_coppa", "claims_compliance", "consent_methods",
                     "consent_method_details", "exceptions_claimed", "exception_details",
                     "age_threshold_stated"}
    /\ Range(c.v.consent_methods) \subseteq COPPAConsentMethod
    /\ Range(c.v.exceptions_claimed) \subseteq COPPAException

\* GDPRAnalysis, extra = forbid
GDPRAnalysisValid(g) ==
    /\ g.t = "dict"
    /\ DOMAIN g.v = {"mentions_gdpr", "claims_compliance", "consent_methods",
                     "consent_method_details", "lawful_bases", "lawful_basis_details",
                     "age_threshold_stated"}
    /\ Range(g.v.consent_methods) \subseteq GDPRConsentMethod
    /\ Range(g.v.lawful_bases) \subseteq GDPRLawfulBasis

\* PolicyAnalysisResult, extra = forbid: what validation against the schema accepts
PolicyAnalysisResultValid(b) ==
    /\ b.t = "dict"
    /\ DOMAIN b.v = IndicatorSet \cup {"third_party_list", "third_party_details",
                                       "coppa_analysis", "gdpr_analysis"}
    /\ \A i \in 1..Len(b.v.third_party_details) :
          ThirdPartyDetailValid(b.v.third_party_details[i])
    /\ COPPAAnalysisValid(b.v.coppa_analysis)
    /\ GDPRAnalysisValid(b.v.gdpr_analysis)

(***************************************************************************)
(* Response bodies of the stub classifier (after json.loads)               *)
(***************************************************************************)
GoodCoppa ==
    [mentions_coppa |-> TRUE, claims_compliance |-> TRUE,
     consent_methods |-> <<"email_plus", "school_consent">>,
     consent_method_details |-> "email plus confirmation",
     exceptions_claimed |-> <<"school_authorization">>,
     exception_details |-> "schools may consent",
     age_threshold_stated |-> "13"]
GoodGdpr ==
    [mentions_gdpr |-> TRUE, claims_compliance |-> FALSE,
     consent_methods |-> <<"email_verification">>,
     consent_method_details |-> "verified by email",
     lawful_bases |-> <<"consent", "contract">>,
     lawful_basis_details |-> "consent of the parent",
     age_threshold_stated |-> "16"]
EmptyCoppa ==
    [mentions_coppa |-> FALSE, claims_compliance |-> FALSE, consent_methods |-> <<>>,
     consent_method_details |-> "", exceptions_claimed |-> <<>>,
     exception_details |-> "", age_threshold_stated |-> PyNone]
EmptyGdpr ==
    [mentions_gdpr |-> FALSE, claims_compliance |-> FALSE, consent_methods |-> <<>>,
     consent_method_details |-> "", lawful_bases |-> <<>>,
     lawful_basis_details |-> "", age_threshold_stated |-> PyNone]

IndicatorValues(on) == [k \in IndicatorSet |-> k \in on]
SomeOn == {"data_collection_disclosure", "third_party_sharing_disclosure",
           "data_security_encryption"}

\* a response that conforms to the schema
GoodBody ==
    JDict(IndicatorValues(SomeOn) @@
          [third_party_list |-> <<"Google Analytics", "AWS">>,
           third_party_details |->
               <<[name |-> "Google Analytics", purpose |-> "analytics",
                  data_shared |-> <<"IP address", "device ID">>],
                 [name |-> "AWS", purpose |-> "cloud storage", data_shared |-> <<>>]>>,
           coppa_analysis |-> JDict(GoodCoppa),
           gdpr_analysis |-> JDict(GoodGdpr)])
\* a conforming response whose collections are all empty
EmptyCollectionsBody ==
    JDict(IndicatorValues({}) @@
          [third_party_list |-> <<>>, third_party_details |-> <<>>,
           coppa_analysis |-> JDict(EmptyCoppa), gdpr_analysis |-> JDict(EmptyGdpr)])
\* the body of tests/test_analyzer.py: the indicators, two undeclared fields, and
\* none of the nested fields
TestBody ==
    JDict(IndicatorValues(IndicatorSet) @@
          [privacy_compliance_score |-> 9, privacy_risk_level |-> "LOW"])
\* the indicators with a score and a level that do not follow from them
WrongScoreBody ==
    JDict(IndicatorValues(SomeOn) @@
          [privacy_compliance_score |-> 9, privacy_risk_level |-> "LOW"])
\* the indicators and an empty coppa_analysis: no third-party field, no
\* gdpr_analysis, no enum list
SparseBody == JDict(IndicatorValues(SomeOn) @@ [coppa_analysis |-> JDict(<<>>)])
\* a conforming response plus one undeclared top-level field
ExtraFieldBody == JDict(GoodBody.v @@ [confidence |-> "high"])
\* an enum value outside the closed set
BadEnumBody ==
    JDict([GoodBody.v EXCEPT
             !.coppa_analysis =
                 JDict([GoodCoppa EXCEPT !.consent_methods = <<"carrier_pigeon">>])])
\* {}
EmptyDictBody == JDict(<<>>)
\* "coppa_analysis": null
NullCoppaBody == JDict([GoodBody.v EXCEPT !.coppa_analysis = JNull])
\* a JSON array
ListBody == JList(<<1>>)
\* []
EmptyListBody == JList(<<>>)

Bodies == {GoodBody, EmptyCollectionsBody, TestBody, WrongScoreBody, SparseBody, ExtraFieldBody,
           BadEnumBody,
           EmptyDictBody, NullCoppaBody, ListBody, EmptyListBody, JNull}

(***************************************************************************)
(* Output rows.  A row is a Python dict: k is its keys in insertion order, *)
(* v its values.                                                           *)
(***************************************************************************)
CoppaKeys ==
    <<"coppa_mentions", "coppa_claims_compliance", "coppa_consent_methods",
      "coppa_consent_details", "coppa_exceptions", "coppa_exception_details",
      "coppa_age_threshold">>
GdprKeys ==
    <<"gdpr_mentions", "gdpr_claims_compliance", "gdpr_consent_methods",
      "gdpr_consent_details", "gdpr_lawful_bases", "gdpr_lawful_basis_details",
      "gdpr_age_threshold">>
FieldKeys ==
    <<"data_collection_disclosure", "data_use_purpose_specification",
      "third_party_sharing_disclosure", "third_party_list", "third_party_data_shared",
      "parental_consent_mechanism", "coppa_ferpa_compliance_mention",
      "data_retention_policy", "user_data_rights", "data_security_encryption",
      "tracking_technologies_disclosure">> \o CoppaKeys \o GdprKeys
\* the columns that hold text (the others hold booleans)
TextKeys ==
    {"app_id", "app_name", "error", "third_party_list", "third_party_data_shared",
     "coppa_consent_methods", "coppa_consent_details", "coppa_exceptions",
     "coppa_exception_details", "coppa_age_threshold", "gdpr_consent_methods",
     "gdpr_consent_details", "gdpr_lawful_bases", "gdpr_lawful_basis_details",
     "gdpr_age_threshold"}
AgeKeys == {"coppa_age_threshold", "gdpr_age_threshold"}
BoolKeys == Range(FieldKeys) \ TextKeys

_get_empty_coppa_fields ==
    [coppa_mentions |-> FALSE, coppa_claims_compliance |-> FALSE,
     coppa_consent_methods |-> "", coppa_consent_details |-> "", coppa_exceptions |-> "",
     coppa_exception_details |-> "", coppa_age_threshold |-> ""]

_get_empty_gdpr_fields ==
    [gdpr_mentions |-> FALSE, gdpr_claims_compliance |-> FALSE,
     gdpr_consent_methods |-> "", gdpr_consent_details |-> "", gdpr_lawful_bases |-> "",
     gdpr_lawful_basis_details |-> "", gdpr_age_threshold |-> ""]

\* coppa = analysis.get("coppa_analysis", {})
CoppaOf(analysis) == Get(analysis.v, "coppa_analysis", JDict(<<>>))
GdprOf(analysis) == Get(analysis.v, "gdpr_analysis", JDict(<<>>))

\* the lists rendered by str() instead of "; ".join
ExtractCoppaFieldsStr(analysis) ==
    LET coppa == CoppaOf(analysis).v
        Str(s) == IF s = <<>> THEN "[]" ELSE Join(", ", s)
    IN
    [coppa_mentions |-> Get(coppa, "mentions_coppa", FALSE),
     coppa_claims_compliance |-> Get(coppa, "claims_compliance", FALSE),
     coppa_consent_methods |-> Str(Get(coppa, "consent_methods", <<>>)),
     coppa_consent_details |-> Get(coppa, "consent_method_details", ""),
     coppa_exceptions |-> Str(Get(coppa, "exceptions_claimed", <<>>)),
     coppa_exception_details |-> Get(coppa, "exception_details", ""),
     coppa_age_threshold |-> Get(coppa, "age_threshold_stated", "")]

_extract_coppa_fields(analysis) ==
    LET coppa == CoppaOf(analysis).v IN
    [coppa_mentions |-> Get(coppa, "mentions_coppa", FALSE),
     coppa_claims_compliance |-> Get(coppa, "claims_compliance", FALSE),
     coppa_consent_methods |-> Join("; ", Get(coppa, "consent_methods", <<>>)),
     coppa_consent_details |-> Get(coppa, "consent_method_details", ""),
     coppa_exceptions |-> Join("; ", Get(coppa, "exceptions_claimed", <<>>)),
     coppa_exception_details |-> Get(coppa, "exception_details", ""),
     coppa_age_threshold |-> Get(coppa, "age_threshold_stated", "")]

_extract_gdpr_fields(analysis) ==
    LET gdpr == GdprOf(analysis).v IN
    [gdpr_mentions |-> Get(gdpr, "mentions_gdpr", FALSE),
     gdpr_claims_compliance |-> Get(gdpr, "claims_compliance", FALSE),
     gdpr_consent_methods |-> Join("; ", Get(gdpr, "consent_methods", <<>>)),
     gdpr_consent_details |-> Get(gdpr, "consent_method_details", ""),
     gdpr_lawful_bases |-> Join("; ", Get(gdpr, "lawful_bases", <<>>)),
     gdpr_lawful_basis_details |-> Get(gdpr, "lawful_basis_details", ""),
     gdpr_age_threshold |-> Get(gdpr, "age_threshold_stated", "")]

\* the literal of the two error branches of process_batch
ErrorFields ==
    [data_collection_disclosure |-> FALSE,
     data_use_purpose_specification |-> FALSE,
     third_party_sharing_disclosure |-> FALSE,
     third_party_list |-> "",
     third_party_data_shared |-> "",
     parental_consent_mechanism |-> FALSE,
     coppa_ferpa_compliance_mention |-> FALSE,
     data_retention_policy |-> FALSE,
     user_data_rights |-> FALSE,
     data_security_encryption |-> FALSE,
     tracking_technologies_disclosure |-> FALSE]
    @@ _get_empty_coppa_fields @@ _get_empty_gdpr_fields

\* the row of a skipped record
ShortRow(app_id, app_name) ==
    [k |-> <<"app_id", "app_name", "error">> \o FieldKeys,
     v |-> [app_id |-> app_id, app_name |-> app_name, error |-> "empty_or_short_policy"]
           @@ ErrorFields]

\* the error literal without its GDPR placeholders
FailedRowWithoutGdpr(app_id, app_name) ==
    [k |-> <<"app_id", "app_name", "error">> \o SubSeq(FieldKeys, 1, 18),
     v |-> [app_id |-> app_id, app_name |-> app_name, error |-> "analysis_failed"]
           @@ [c \in Range(SubSeq(FieldKeys, 1, 18)) |-> ErrorFields[c]]]

\* the row of a record whose analysis returned nothing
FailedRow(app_id, app_name) ==
    [k |-> <<"app_id", "app_name", "error">> \o FieldKeys,
     v |-> [app_id |-> app_id, app_name |-> app_name, error |-> "analysis_failed"]
           @@ ErrorFields]

\* f"{name} ({purpose}): {data_str}" for every detail
ThirdPartyDataShared(details) ==
    [i \in 1..Len(details) |->
        LET name == Get(details[i], "name", "Unknown")
            purpose == Get(details[i], "purpose", "Not specified")
            data_types == Get(details[i], "data_shared", <<>>)
            data_str == IF data_types # <<>> THEN Join(", ", data_types)
                        ELSE "Not specified"
        IN name \o " (" \o purpose \o "): " \o data_str]

\* if analysis: ... (the truth value of what analyze_policy returned)
Truthy(analysis) ==
    CASE analysis.t = "dict" -> DOMAIN analysis.v # {}
      [] analysis.t = "list" -> Len(analysis.v) > 0
      [] OTHER -> FALSE

\* building the row calls .get on the result and on its two sub-objects: a value
\* that is no dict has no .get and raises AttributeError
FlattenRaisesWithoutGet(analysis) ==
    IF analysis.t # "dict" THEN TRUE
    ELSE IF "coppa_analysis" \notin DOMAIN analysis.v THEN TRUE
    ELSE IF "gdpr_analysis" \notin DOMAIN analysis.v THEN TRUE
    ELSE IF CoppaOf(analysis).t # "dict" THEN TRUE
    ELSE GdprOf(analysis).t # "dict"
FlattenRaises(analysis) ==
    IF analysis.t # "dict" THEN TRUE
    ELSE IF CoppaOf(analysis).t # "dict" THEN TRUE
    ELSE GdprOf(analysis).t # "dict"

\* the row of a classified record
SuccessRow(app_id, app_name, analysis) ==
    LET third_party_list == Get(analysis.v, "third_party_list", <<>>)
        third_party_data_shared ==
            ThirdPartyDataShared(Get(analysis.v, "third_party_details", <<>>))
    IN
    [k |-> <<"app_id", "app_name">> \o FieldKeys,
     v |-> [app_id |-> app_id, app_name |-> app_name,
            data_collection_disclosure |->
                Get(analysis.v, "data_collection_disclosure", FALSE),
            data_use_purpose_specification |->
                Get(analysis.v, "data_use_purpose_specification", FALSE),
            third_party_sharing_disclosure |->
                Get(analysis.v, "third_party_sharing_disclosure", FALSE),
            third_party_list |->
                IF third_party_list # <<>> THEN Join("; ", third_party_list) ELSE "",
            third_party_data_shared |->
                IF third_party_data_shared # <<>> THEN Join(" | ", third_party_data_shared)
                ELSE "",
            parental_consent_mechanism |->
                Get(analysis.v, "parental_consent_mechanism", FALSE),
            coppa_ferpa_compliance_mention |->
                Get(analysis.v, "coppa_ferpa_compliance_mention", FALSE),
            data_retention_policy |-> Get(analysis.v, "data_retention_policy", FALSE),
            user_data_rights |-> Get(analysis.v, "user_data_rights", FALSE),
            data_security_encryption |->
                Get(analysis.v, "data_security_encryption", FALSE),
            tracking_technologies_disclosure |->
                Get(analysis.v, "tracking_technologies_disclosure", FALSE)]
           @@ _extract_coppa_fields(analysis) @@ _extract_gdpr_fields(analysis)]

(***************************************************************************)
(* The CSV artifact: pd.DataFrame(results).to_csv(output_file, index=False)*)
(* and pd.read_csv(output_file).to_dict('records').  A file is its header  *)
(* (cols) and one function cols -> cell per line.                          *)
(***************************************************************************)
NoFile == [exists |-> FALSE, cols |-> <<>>, rows |-> <<>>]

\* cols, then the keys of ks that cols lacks, in the order of ks
AddKeys(cols, ks) == cols \o SelectSeq(ks, LAMBDA x : x \notin Range(cols))

\* the columns of DataFrame(results): the keys of the rows in order of first appearance
Columns(rows) ==
    LET upto[i \in 0..Len(rows)] ==
            IF i = 0 THEN <<>> ELSE AddKeys(upto[i - 1], rows[i].k)
    IN upto[Len(rows)]

\* what to_csv writes for one value: nothing for a missing key, NaN or None
CsvCell(row, c) ==
    IF c \notin DOMAIN row.v THEN ""
    ELSE IF c \in TextKeys /\ row.v[c] \in {NaN, PyNone} THEN ""
    ELSE row.v[c]

\* the text of an integer, and of the float it becomes in a float column
IntTexts == {"13", "16"}
FloatTexts == {"13.0", "16.0"}
FloatForm(x) == IF x \in IntTexts THEN x \o ".0" ELSE x

\* DataFrame(results) holds a column as floats when its values are numbers and
\* a missing value (None, NaN, no key) or a float is among them; a string in
\* the column (the "" of an error row) keeps every value as it is
WrittenAsFloat(rows, c) ==
    /\ c \in AgeKeys
    /\ \A i \in 1..Len(rows) :
          c \in DOMAIN rows[i].v =>
              rows[i].v[c] \in IntTexts \cup FloatTexts \cup {NaN, PyNone}
    /\ \E i \in 1..Len(rows) :
          c \in DOMAIN rows[i].v => rows[i].v[c] \in FloatTexts \cup {NaN, PyNone}

\* the cell of row i in column c of the file
Written(rows, i, c) ==
    IF WrittenAsFloat(rows, c) THEN FloatForm(CsvCell(rows[i], c))
    ELSE CsvCell(rows[i], c)

\* to_csv writes the header and one line per row of the accumulator
ToCsvFirstRowOnly(rows) ==
    LET cols == Columns(rows) IN
    [exists |-> TRUE,
     cols |-> cols,
     rows |-> [i \in 1..Min(1, Len(rows)) |-> [c \in Range(cols) |-> Written(rows, i, c)]]]
ToCsv(rows) ==
    LET cols == Columns(rows) IN
    [exists |-> TRUE,
     cols |-> cols,
     rows |-> [i \in 1..Len(rows) |-> [c \in Range(cols) |-> Written(rows, i, c)]]]

\* a column of numbers with an empty cell or a float is read as floats
ReadsAsFloat(file, c) ==
    /\ c \in AgeKeys
    /\ \E i \in 1..Len(file.rows) : file.rows[i][c] \in {""} \cup FloatTexts

\* read_csv: an empty cell is NaN
ReadCell(file, c, cell) ==
    IF c \notin TextKeys THEN cell
    ELSE IF cell = "" THEN NaN
    ELSE IF ReadsAsFloat(file, c) THEN FloatForm(cell)
    ELSE cell

\* read_csv raises EmptyDataError on a file without a header line
ReadCsvRaises(file) == file.cols = <<>>

ReadCsv(file) ==
    [i \in 1..Len(file.rows) |->
        [k |-> file.cols,
         v |-> [c \in Range(file.cols) |-> ReadCell(file, c, file.rows[i][c])]]]

\* output_df['error'].notna().sum() when the column exists
ErrorCount(rows) ==
    Cardinality({i \in 1..Len(rows) :
                    "error" \in DOMAIN rows[i].v /\ rows[i].v["error"] # NaN})

(***************************************************************************)
(* The stub classifier: for input row i, stub[i].rl rate-limit signals,    *)
(* then stub[i].final: a response body or another error.                   *)
(***************************************************************************)
BodyOutcome(b) == [kind |-> "body", body |-> b, err |-> ""]
ErrorOutcome(e) == [kind |-> "error", body |-> JNull, err |-> e]
RateLimitOutcome == [kind |-> "rate_limit", body |-> JNull, err |-> "RateLimitError"]
\* failures that are no rate-limit signal: network, authentication, and a
\* response that json.loads cannot parse
OtherErrors == {"APIConnectionError", "AuthenticationError", "JSONDecodeError"}

\* which branch of analyze_policy's try/except an outcome of the call takes
HandleErrorsByRetry(outcome) ==
    CASE outcome.kind = "body" -> "return"
      [] OTHER -> "retry"
Handle(outcome) ==
    CASE outcome.kind = "body" -> "return"
      [] outcome.kind = "rate_limit" -> "retry"
      [] OTHER -> "none"

\* idx % 50 == 0 or idx == total_policies - 1
ShouldCheckpointOnlyLast(i, total) == i = total - 1
ShouldCheckpointNoLast(i, total) == i % CheckpointEvery = 0
ShouldCheckpointEvery51(i, total) == i % (CheckpointEvery + 1) = 0 \/ i = total - 1
ShouldCheckpoint(i, total) == i % CheckpointEvery = 0 \/ i = total - 1

\* str.lower(), letter by letter
LowerCase ==
    [c \in {"A", "B", "C", "D", "E", "F", "G", "H", "I", "J", "K", "L", "M", "N", "O", "P",
            "Q", "R", "S", "T", "U", "V", "W", "X", "Y", "Z"} |->
        CASE c = "A" -> "a" [] c = "B" -> "b" [] c = "C" -> "c" [] c = "D" -> "d"
          [] c = "E" -> "e" [] c = "F" -> "f" [] c = "G" -> "g" [] c = "H" -> "h"
          [] c = "I" -> "i" [] c = "J" -> "j" [] c = "K" -> "k" [] c = "L" -> "l"
          [] c = "M" -> "m" [] c = "N" -> "n" [] c = "O" -> "o" [] c = "P" -> "p"
          [] c = "Q" -> "q" [] c = "R" -> "r" [] c = "S" -> "s" [] c = "T" -> "t"
          [] c = "U" -> "u" [] c = "V" -> "v" [] c = "W" -> "w" [] c = "X" -> "x"
          [] c = "Y" -> "y" [] c = "Z" -> "z"]
Lower(s) == [i \in 1..Len(s) |-> IF s[i] \in DOMAIN LowerCase THEN LowerCase[s[i]] ELSE s[i]]
\* sub in s
Contains(sub, s) ==
    \E i \in 1..(Len(s) - Len(sub) + 1) : SubSeq(s, i, i + Len(sub) - 1) = sub
\* lines 129-131: "nano" not in self.model.lower()
SupportsTemperatureAlways(m) == TRUE
SupportsTemperature(m) == ~Contains(<<"n", "a", "n", "o">>, Lower(m))

(***************************************************************************)
(* State                                                                   *)
(***************************************************************************)
VARIABLES
    df,           \* the rows of the input file: [app_id, app_name, policy_text]
    stub,         \* the classifier's answers, one [rl, final] per input row
    resume_from,  \* the argument of process_batch
    prior,        \* the output file as the run found it
    artifact,     \* the output file
    results,      \* the accumulator
    idx,          \* the index of the loop of process_batch
    pc,           \* where the run is
    result,       \* the row built for record idx
    analysis,     \* what analyze_policy returned (JNull: None)
    policy_text,  \* the text analyze_policy dispatches
    depth,        \* nested analyze_policy frames
    remaining,    \* rate-limit signals the stub still answers for record idx
    calls,        \* classifier calls dispatched for record idx
    cooldowns,    \* cool-down sleeps for record idx
    slept,        \* time slept in cool-downs for record idx
    writes,       \* checkpoint writes of the loop, in this run
    paces,        \* pacing delays of this run
    persisted,    \* rows of the accumulator that the output file holds
    seeded,       \* rows the accumulator was seeded with at the start
    processed,    \* "Total policies processed"
    errors,       \* "Errors encountered"
    model,        \* self.model, the characters of the name
    request       \* request_params of the last classifier call

input == <<df, stub, resume_from, prior, model>>
call == <<analysis, policy_text, depth, remaining, calls, cooldowns, slept>>
stats == <<processed, errors>>
vars == <<df, stub, resume_from, prior, artifact, results, idx, pc, result, analysis,
          policy_text, depth, remaining, calls, cooldowns, slept, writes, paces,
          persisted, seeded, processed, errors, model, request>>

total_policies == Len(df)

\* the names of the models a run can select
GptNano == <<"g", "p", "t", "-", "5", "-", "n", "a", "n", "o">>
GptMini == <<"g", "p", "t", "-", "4", "o", "-", "m", "i", "n", "i">>
GptUpperNano == <<"G", "P", "T", "-", "5", "-", "N", "A", "N", "O">>
GptDatedNano == <<"g", "p", "t", "-", "4", ".", "1", "-", "N", "a", "n", "o", "-", "1">>
GptNan == <<"g", "p", "t", "-", "n", "a", "n">>
GptO == <<"g", "p", "t", "-", "4", "o">>
ModelNames == {GptNano, GptMini, GptUpperNano, GptDatedNano, GptNan, GptO}
\* model: str = "gpt-5-nano"
DefaultModel == GptNano
\* no call was made yet
NoRequest == <<>>

\* lines 111-131: the parameters of the call
request_params ==
    LET params ==
            [model |-> model,
             messages |-> <<[role |-> "system", content |-> "SYSTEM_PROMPT"],
                            [role |-> "user", content |-> policy_text]>>,
             response_format |->
                 [type |-> "json_schema",
                  json_schema |-> [name |-> "policy_analysis",
                                   schema |-> "PolicyAnalysisResult", strict |-> TRUE]]]
    IN IF SupportsTemperature(model) THEN params @@ [temperature |-> "0.1"] ELSE params
\* the empty string
EmptyText == Txt(0, 0, 0)
\* row.get(policy_column, "")
ReadPolicyText(r) == Get(r, "policy_text", EmptyText)
\* lines 192-194: what the loop reads from the input row of its index (idx
\* counts from 0)
row ==
    LET r == df[idx + 1] IN
    [app_id |-> Get(r, "app_id", "app_" \o ToString(idx)),
     app_name |-> IF "app_name" \in DOMAIN r THEN r.app_name ELSE "",
     policy_text |-> ReadPolicyText(r)]
NoRow == [k |-> <<>>, v |-> <<>>]

(***************************************************************************)
(* Inputs of the model                                                     *)
(***************************************************************************)
ShortText == Txt(3, MinPolicyLen - 1, 2)
OkText == Txt(1, MinPolicyLen, 1)
CapText == Txt(0, max_chars, 0)
OverText == Txt(0, max_chars + 1, 0)
\* one character over the cap, the last of them whitespace
OverTrailText == Txt(1, max_chars - 1, 1)

Answer(rl, final) == [rl |-> rl, final |-> final]
Kind(text, rl, final) == [text |-> text, st |-> Answer(rl, final)]

Finals == {BodyOutcome(b) : b \in Bodies} \cup {ErrorOutcome(e) : e \in OtherErrors}

\* the kinds of the rows that fill an input file
PlainKinds == {Kind(NaNText, 0, BodyOutcome(GoodBody)),
               Kind(OkText, 0, BodyOutcome(GoodBody))}
\* the kinds of the one row of an input file that is under study
ProbeKinds ==
    {Kind(ShortText, 0, BodyOutcome(GoodBody))}
    \cup {Kind(OkText, 0, f) : f \in Finals}
    \cup {Kind(t, rl, BodyOutcome(EmptyCollectionsBody)) :
             t \in {CapText, OverText, OverTrailText}, rl \in 0..1}
    \cup {Kind(OkText, rl, f) :
             rl \in 1..PyRecursionLimit,
             f \in {BodyOutcome(GoodBody), ErrorOutcome("APIConnectionError")}}
\* the kinds of the rows of a file whose run is resumed
ResumeKinds == PlainKinds \cup {Kind(OkText, 0, ErrorOutcome("AuthenticationError"))}

Rec(i, text) ==
    [app_id |-> "id" \o ToString(i), app_name |-> "App " \o ToString(i),
     policy_text |-> text]

\* what analyze_policy returns for a row kind that does not exhaust the recursion
ReturnOf(kind) ==
    IF kind.st.final.kind = "body" THEN kind.st.final.body ELSE JNull

\* a row kind that a run gets past
Passable(kind) ==
    \/ IsShort(kind.text)
    \/ /\ kind.st.rl < PyRecursionLimit
       /\ Truthy(ReturnOf(kind)) => ~FlattenRaises(ReturnOf(kind))

\* the row a run appends for input row i (counted from 0) of a passable kind
RowOf(i, kind) ==
    LET r == Rec(i, kind.text) IN
    IF IsShort(kind.text) THEN ShortRow(r.app_id, r.app_name)
    ELSE IF Truthy(ReturnOf(kind)) THEN SuccessRow(r.app_id, r.app_name, ReturnOf(kind))
    ELSE FailedRow(r.app_id, r.app_name)

\* the output files an earlier run over the same input can have left:
\* none, or the rows of its first m records
PriorArtifacts(kinds) ==
    {NoFile} \cup
    {ToCsv([i \in 1..m |-> RowOf(i - 1, kinds[i])]) :
        m \in {n \in 0..Len(kinds) : \A i \in 1..n : Passable(kinds[i])}}

\* an output file left by a run over another input
StaleFile == ToCsv(<<ShortRow("old0", "Old 0"), ShortRow("old1", "Old 1")>>)

\* the state before process_batch reads its input file
InitRows(rows, answers, from, file) ==
    /\ df = rows
    /\ stub = answers
    /\ model = DefaultModel
    /\ request = NoRequest
    /\ resume_from = from
    /\ prior = file
    /\ artifact = file
    /\ results = <<>>
    /\ idx = 0
    /\ pc = "NotStarted"
    /\ result = NoRow
    /\ analysis = JNull
    /\ policy_text = NaNText
    /\ depth = 0
    /\ remaining = 0
    /\ calls = 0
    /\ cooldowns = 0
    /\ slept = 0
    /\ writes = 0
    /\ paces = 0
    /\ persisted = 0
    /\ seeded = 0
    /\ processed = 0
    /\ errors = 0

InitRun(kinds, from, file) ==
    InitRows([i \in 1..Len(kinds) |-> Rec(i - 1, kinds[i].text)],
             [i \in 1..Len(kinds) |-> kinds[i].st], from, file)

\* fresh runs over a file of plain rows and one row under study
InitFresh ==
    \E n \in 0..MaxRows :
    \E plain \in [1..n -> PlainKinds] :
    \E p \in 0..n :
    \E k \in ProbeKinds :
    \E file \in {NoFile, StaleFile} :
        InitRun([i \in 1..n |-> IF i = p THEN k ELSE plain[i]], 0, file)

\* runs with any resume offset over what an earlier run left
InitResume ==
    \E n \in 0..MaxRows :
    \E kinds \in [1..n -> ResumeKinds] :
    \E from \in 0..(n + 1) :
    \E file \in PriorArtifacts(kinds) :
        InitRun(kinds, from, file)

\* runs over an input file that has no policy_text column, started fresh or with an
\* offset
InitNoTextColumn ==
    \E n \in 0..MaxRows :
    \E from \in 0..1 :
    \E file \in {NoFile, StaleFile} :
        InitRows([i \in 1..n |-> [app_id |-> "id" \o ToString(i - 1),
                                   app_name |-> "App " \o ToString(i - 1)]],
                 [i \in 1..n |-> Answer(0, BodyOutcome(GoodBody))], from, file)

Init == InitFresh \/ InitResume \/ InitNoTextColumn

\* the kinds of the row under study in a long input file
LongProbeKinds ==
    {Kind(OkText, 0, BodyOutcome(GoodBody)),
     Kind(OkText, PyRecursionLimit, BodyOutcome(GoodBody)),
     Kind(OkText, 1, ErrorOutcome("APIConnectionError")),
     Kind(OkText, 0, BodyOutcome(ListBody))}

\* runs over more than CheckpointEvery rows: rows of one plain kind, the first or
\* the last row under study, started fresh or resumed after the first checkpoint
InitLong ==
    \E n \in (CheckpointEvery + 1)..(CheckpointEvery + LongExtra) :
    \E plain \in PlainKinds :
    \E p \in {1, n} :
    \E k \in LongProbeKinds :
    \E from \in 0..2 :
    LET kinds == [i \in 1..n |-> IF i = p THEN k ELSE plain] IN
    \E file \in {NoFile} \cup
                {ToCsv([i \in 1..m |-> RowOf(i - 1, kinds[i])]) :
                    m \in {j \in 0..1 : \A i \in 1..j : Passable(kinds[i])}} :
        InitRun(kinds, from, file)

\* the rows of the end-to-end scenario: two checkpoint intervals and one row
ScenarioRows == 2 * CheckpointEvery + 1

\* a mix of short and well-formed rows, all answered by a conforming body: of
\* every period rows, the first short ones have no usable text
MixKind(i, period, short) ==
    IF i % period < short THEN Kind(NaNText, 0, BodyOutcome(GoodBody))
    ELSE Kind(OkText, 0, BodyOutcome(GoodBody))

\* runs over ScenarioRows rows, started fresh, or with an offset and no output file
InitScenario ==
    \E period \in 1..3 :
    \E short \in 0..period :
    \E from \in 0..1 :
        InitRun([i \in 1..ScenarioRows |-> MixKind(i, period, short)], from, NoFile)

(***************************************************************************)
(* process_batch                                                           *)
(***************************************************************************)
\* where the loop goes once it is done with record idx
AfterRecord(i) == IF i + 1 < total_policies THEN "Pending" ELSE "FinalSave"

\* lines 176-185 with no artifact to load: results = []
StartFresh ==
    /\ pc = "NotStarted"
    /\ ~(artifact.exists /\ resume_from > 0)
    /\ results' = <<>>
    /\ persisted' = 0
    /\ seeded' = 0
    /\ idx' = 0
    /\ pc' = IF total_policies = 0 THEN "FinalSave" ELSE "Pending"
    /\ UNCHANGED <<input, request, artifact, result, call, writes, paces, stats>>

\* lines 182-185: the accumulator is seeded with the rows of the output file
StartResumeWhenExists ==
    /\ pc = "NotStarted"
    /\ artifact.exists
    /\ ~ReadCsvRaises(artifact)
    /\ results' = ReadCsv(artifact)
    /\ persisted' = Len(artifact.rows)
    /\ seeded' = Len(artifact.rows)
    /\ idx' = 0
    /\ pc' = IF total_policies = 0 THEN "FinalSave" ELSE "Pending"
    /\ UNCHANGED <<input, request, artifact, result, call, writes, paces, stats>>
StartResume ==
    /\ pc = "NotStarted"
    /\ artifact.exists /\ resume_from > 0
    /\ ~ReadCsvRaises(artifact)
    /\ results' = ReadCsv(artifact)
    /\ persisted' = Len(artifact.rows)
    /\ seeded' = Len(artifact.rows)
    /\ idx' = 0
    /\ pc' = IF total_policies = 0 THEN "FinalSave" ELSE "Pending"
    /\ UNCHANGED <<input, request, artifact, result, call, writes, paces, stats>>

\* line 183 on an output file without a header: read_csv raises
StartResumeFails ==
    /\ pc = "NotStarted"
    /\ artifact.exists /\ resume_from > 0
    /\ ReadCsvRaises(artifact)
    /\ pc' = "Aborted"
    /\ UNCHANGED <<input, request, seeded, artifact, results, idx, result, call, writes, paces,
                   persisted, stats>>

\* line 189: if idx < resume_from
SkippedWhenSeeded(i) == i < seeded
Skipped(i) == i < resume_from

\* lines 189-190: continue
SkipResumedPaces ==
    /\ pc = "Pending"
    /\ Skipped(idx)
    /\ idx' = IF idx + 1 < total_policies THEN idx + 1 ELSE idx
    /\ paces' = paces + 1
    /\ pc' = AfterRecord(idx)
    /\ UNCHANGED <<input, request, seeded, artifact, results, result, call, writes, persisted, stats>>
SkipResumed ==
    /\ pc = "Pending"
    /\ Skipped(idx)
    /\ idx' = IF idx + 1 < total_policies THEN idx + 1 ELSE idx
    /\ pc' = AfterRecord(idx)
    /\ UNCHANGED <<input, request, seeded, artifact, results, result, call, writes, paces, persisted,
                   stats>>

\* lines 192-216: the short-circuit branch
ShortCircuit ==
    /\ pc = "Pending"
    /\ ~Skipped(idx)
    /\ IsShort(row.policy_text)
    /\ result' = ShortRow(row.app_id, row.app_name)
    /\ calls' = 0 /\ cooldowns' = 0 /\ slept' = 0 /\ depth' = 0 /\ remaining' = 0
    /\ analysis' = JNull
    /\ pc' = "Append"
    /\ UNCHANGED <<input, request, seeded, artifact, results, idx, policy_text, writes, paces, persisted,
                   stats>>

\* line 218 and lines 105-109: analyze_policy is entered and truncates
CallAnalyze ==
    /\ pc = "Pending"
    /\ ~Skipped(idx)
    /\ ~IsShort(row.policy_text)
    /\ policy_text' = Truncate(row.policy_text)
    /\ depth' = 1
    /\ remaining' = stub[idx + 1].rl
    /\ calls' = 0 /\ cooldowns' = 0 /\ slept' = 0
    /\ analysis' = JNull
    /\ pc' = "Dispatch"
    /\ UNCHANGED <<input, request, seeded, artifact, results, idx, result, writes, paces, persisted,
                   stats>>

(***************************************************************************)
(* analyze_policy                                                          *)
(***************************************************************************)
\* what the classifier answers to the next call for record idx
Outcome == IF remaining > 0 THEN RateLimitOutcome ELSE stub[idx + 1].final

\* lines 133-137: the call returns a body, which is parsed and returned
DispatchReturnsDeclared ==
    /\ pc = "Dispatch"
    /\ Handle(Outcome) = "return"
    /\ request' = request_params
    /\ calls' = calls + 1
    /\ analysis' =
          IF Outcome.body.t = "dict"
          THEN JDict([k \in DOMAIN Outcome.body.v \ {"privacy_compliance_score",
                                                     "privacy_risk_level"} |->
                         Outcome.body.v[k]])
          ELSE Outcome.body
    /\ pc' = "Returned"
    /\ UNCHANGED <<input, seeded, artifact, results, idx, result, policy_text, depth, remaining,
                   cooldowns, slept, writes, paces, persisted, stats>>
DispatchReturns ==
    /\ pc = "Dispatch"
    /\ Handle(Outcome) = "return"
    /\ request' = request_params
    /\ calls' = calls + 1
    /\ analysis' = Outcome.body
    /\ pc' = "Returned"
    /\ UNCHANGED <<input, seeded, artifact, results, idx, result, policy_text, depth, remaining,
                   cooldowns, slept, writes, paces, persisted, stats>>

\* lines 144-146: any other exception is logged and None is returned
DispatchFails ==
    /\ pc = "Dispatch"
    /\ Handle(Outcome) = "none"
    /\ request' = request_params
    /\ calls' = calls + 1
    /\ analysis' = JNull
    /\ pc' = "Returned"
    /\ UNCHANGED <<input, seeded, artifact, results, idx, result, policy_text, depth, remaining,
                   cooldowns, slept, writes, paces, persisted, stats>>

\* lines 139-141: RateLimitError is logged and the call sleeps 60
DispatchRateLimited ==
    /\ pc = "Dispatch"
    /\ Handle(Outcome) = "retry"
    /\ request' = request_params
    /\ calls' = calls + 1
    /\ remaining' = IF remaining > 0 THEN remaining - 1 ELSE 0
    /\ cooldowns' = cooldowns + 1
    /\ slept' = slept + RateLimitSleep
    /\ pc' = "Retry"
    /\ UNCHANGED <<input, seeded, artifact, results, idx, result, analysis, policy_text, depth,
                   writes, paces, persisted, stats>>

\* line 142: analyze_policy calls itself with the text it dispatched
Retry ==
    /\ pc = "Retry"
    /\ depth < PyRecursionLimit
    /\ depth' = depth + 1
    /\ policy_text' = Truncate(policy_text)
    /\ pc' = "Dispatch"
    /\ UNCHANGED <<input, request, seeded, artifact, results, idx, result, analysis, remaining, calls,
                   cooldowns, slept, writes, paces, persisted, stats>>

\* line 142 with the interpreter's stack exhausted: RecursionError, either
\* inside the try of the innermost frame (caught there: None is returned) or in
\* an except clause (it leaves every frame of analyze_policy and process_batch)
RetryOverflows ==
    /\ pc = "Retry"
    /\ depth >= PyRecursionLimit
    /\ \/ /\ analysis' = JNull
          /\ pc' = "Returned"
       \/ /\ analysis' = analysis
          /\ pc' = "Aborted"
    /\ UNCHANGED <<input, request, seeded, artifact, results, idx, result, policy_text, depth, remaining,
                   calls, cooldowns, slept, writes, paces, persisted, stats>>

(***************************************************************************)
(* process_batch, after analyze_policy has returned                        *)
(***************************************************************************)
\* lines 219-249: the result is flattened into a row
BuildSuccess ==
    /\ pc = "Returned"
    /\ Truthy(analysis)
    /\ ~FlattenRaises(analysis)
    /\ result' = SuccessRow(row.app_id, row.app_name, analysis)
    /\ pc' = "Append"
    /\ UNCHANGED <<input, request, seeded, artifact, results, idx, call, writes, paces, persisted, stats>>

\* lines 221-248 on a result that is no dict of dicts: AttributeError leaves
\* process_batch
BuildRaises ==
    /\ pc = "Returned"
    /\ Truthy(analysis)
    /\ FlattenRaises(analysis) = TRUE
    /\ pc' = "Aborted"
    /\ UNCHANGED <<input, request, seeded, artifact, results, idx, result, call, writes, paces, persisted,
                   stats>>

\* lines 250-268: no result
BuildFailed ==
    /\ pc = "Returned"
    /\ ~Truthy(analysis)
    /\ result' = FailedRow(row.app_id, row.app_name)
    /\ pc' = "Append"
    /\ UNCHANGED <<input, request, seeded, artifact, results, idx, call, writes, paces, persisted, stats>>

\* line 270
AppendResultFirst ==
    /\ pc = "Append"
    /\ results' = <<result>> \o results
    /\ pc' = "Checkpoint"
    /\ UNCHANGED <<input, request, seeded, artifact, idx, result, call, writes, paces, persisted, stats>>
AppendResult ==
    /\ pc = "Append"
    /\ results' = Append(results, result)
    /\ pc' = "Checkpoint"
    /\ UNCHANGED <<input, request, seeded, artifact, idx, result, call, writes, paces, persisted, stats>>

\* lines 273-275
Checkpoint ==
    /\ pc = "Checkpoint"
    /\ ShouldCheckpoint(idx, total_policies)
    /\ artifact' = ToCsv(results)
    /\ persisted' = Len(results)
    /\ writes' = writes + 1
    /\ pc' = "Pace"
    /\ UNCHANGED <<input, request, seeded, results, idx, result, call, paces, stats>>

\* line 273 false
NoCheckpoint ==
    /\ pc = "Checkpoint"
    /\ ~ShouldCheckpoint(idx, total_policies)
    /\ pc' = "Pace"
    /\ UNCHANGED <<input, request, seeded, artifact, results, idx, result, call, writes, paces,
                   persisted, stats>>

\* lines 278-279: time.sleep(delay), then the next record
PaceAlways ==
    /\ pc = "Pace"
    /\ paces' = paces + 1
    /\ idx' = IF idx < total_policies - 1 THEN idx + 1 ELSE idx
    /\ pc' = AfterRecord(idx)
    /\ UNCHANGED <<input, request, seeded, artifact, results, result, call, writes, persisted, stats>>
Pace ==
    /\ pc = "Pace"
    /\ idx < total_policies - 1
    /\ paces' = paces + 1
    /\ idx' = idx + 1
    /\ pc' = "Pending"
    /\ UNCHANGED <<input, request, seeded, artifact, results, result, call, writes, persisted, stats>>

\* line 278 false: the last record, the loop ends
LoopEnds ==
    /\ pc = "Pace"
    /\ ~(idx < total_policies - 1)
    /\ pc' = "FinalSave"
    /\ UNCHANGED <<input, request, seeded, artifact, results, idx, result, call, writes, paces,
                   persisted, stats>>

\* lines 282-295: the final save and the summary
FinalSaveUnlessEmpty ==
    /\ pc = "FinalSave"
    /\ artifact' = IF results = <<>> THEN artifact ELSE ToCsv(results)
    /\ persisted' = Len(results)
    /\ processed' = Len(results)
    /\ errors' = IF "error" \in Range(Columns(results)) THEN ErrorCount(results) ELSE 0
    /\ pc' = "Completed"
    /\ UNCHANGED <<input, request, seeded, results, idx, result, call, writes, paces>>
FinalSave ==
    /\ pc = "FinalSave"
    /\ artifact' = ToCsv(results)
    /\ persisted' = Len(results)
    /\ processed' = Len(results)
    /\ errors' = IF "error" \in Range(Columns(results)) THEN ErrorCount(results) ELSE 0
    /\ pc' = "Completed"
    /\ UNCHANGED <<input, request, seeded, results, idx, result, call, writes, paces>>

Next ==
    \/ StartFresh
    \/ StartResume
    \/ StartResumeFails
    \/ SkipResumed
    \/ ShortCircuit
    \/ CallAnalyze
    \/ DispatchReturns
    \/ DispatchFails
    \/ DispatchRateLimited
    \/ Retry
    \/ RetryOverflows
    \/ BuildSuccess
    \/ BuildRaises
    \/ BuildFailed
    \/ AppendResult
    \/ Checkpoint
    \/ NoCheckpoint
    \/ Pace
    \/ LoopEnds
    \/ FinalSave

Spec == Init /\ [][Next]_vars

SpecLong == (InitLong \/ InitScenario) /\ [][Next]_vars

\* process_batch is one sequential thread: a run that can take a step takes it
SpecLive == Init /\ [][Next]_vars /\ WF_vars(Next)

(***************************************************************************)
(* analyze_single_file: one policy read from a text file.  df holds the    *)
(* file as its one row: app_id is the name of the file without ".txt",     *)
(* policy_text what f.read() returned.                                     *)
(***************************************************************************)
\* the keys of the returned dict, in the order of lines 328-343
SingleKeys ==
    <<"app_id">> \o SubSeq(Indicators, 1, 3)
    \o <<"third_party_list", "third_party_data_shared">>
    \o SubSeq(Indicators, 4, Len(Indicators))
    \o <<"coppa_analysis", "gdpr_analysis">>

\* lines 313-343: the dict returned for a result
SingleRecord(app_id, a) ==
    LET third_party_list == Get(a.v, "third_party_list", <<>>)
        third_party_data_shared ==
            ThirdPartyDataShared(Get(a.v, "third_party_details", <<>>))
    IN
    [k |-> SingleKeys,
     v |-> [app_id |-> app_id,
            third_party_list |->
                IF third_party_list # <<>> THEN Join("; ", third_party_list) ELSE "",
            third_party_data_shared |->
                IF third_party_data_shared # <<>> THEN Join(" | ", third_party_data_shared)
                ELSE "",
            coppa_analysis |-> Get(a.v, "coppa_analysis", JDict(<<>>)),
            gdpr_analysis |-> Get(a.v, "gdpr_analysis", JDict(<<>>))]
           @@ [i \in IndicatorSet |-> Get(a.v, i, FALSE)]]

\* lines 344-345
SingleFailed(app_id) ==
    [k |-> <<"app_id", "error">>,
     v |-> [app_id |-> app_id, error |-> "analysis_failed"]]

\* one file of any length, and any answer of the classifier
InitSingle ==
    \E text \in {EmptyText, ShortText, OkText, CapText, OverText} :
    \E rl \in 0..PyRecursionLimit :
    \E final \in Finals :
    \E name \in ModelNames :
        /\ model = name
        /\ request = NoRequest
        /\ df = <<Rec(0, text)>>
        /\ stub = <<Answer(rl, final)>>
        /\ resume_from = 0
        /\ prior = NoFile
        /\ artifact = NoFile
        /\ results = <<>>
        /\ idx = 0
        /\ pc = "SingleStart"
        /\ result = NoRow
        /\ analysis = JNull
        /\ policy_text = NaNText
        /\ depth = 0
        /\ remaining = 0
        /\ calls = 0
        /\ cooldowns = 0
        /\ slept = 0
        /\ writes = 0
        /\ paces = 0
        /\ persisted = 0
        /\ seeded = 0
        /\ processed = 0
        /\ errors = 0

\* lines 307-311 and 105-109: the file is read and analyze_policy is entered
SingleCall ==
    /\ pc = "SingleStart"
    /\ policy_text' = Truncate(row.policy_text)
    /\ depth' = 1
    /\ remaining' = stub[idx + 1].rl
    /\ calls' = 0 /\ cooldowns' = 0 /\ slept' = 0
    /\ analysis' = JNull
    /\ pc' = "Dispatch"
    /\ UNCHANGED <<input, request, seeded, artifact, results, idx, result, writes, paces, persisted,
                   stats>>

\* lines 313-343
SingleReturnsRecord ==
    /\ pc = "Returned"
    /\ Truthy(analysis)
    /\ analysis.t = "dict"
    /\ result' = SingleRecord(row.app_id, analysis)
    /\ pc' = "SingleDone"
    /\ UNCHANGED <<input, request, seeded, artifact, results, idx, call, writes, paces, persisted, stats>>

\* lines 315-316 on a result that is no dict: AttributeError leaves
\* analyze_single_file
SingleRaises ==
    /\ pc = "Returned"
    /\ Truthy(analysis)
    /\ analysis.t # "dict"
    /\ pc' = "Aborted"
    /\ UNCHANGED <<input, request, seeded, artifact, results, idx, result, call, writes, paces, persisted,
                   stats>>

\* lines 344-345
SingleReturnsError ==
    /\ pc = "Returned"
    /\ ~Truthy(analysis)
    /\ result' = SingleFailed(row.app_id)
    /\ pc' = "SingleDone"
    /\ UNCHANGED <<input, request, seeded, artifact, results, idx, call, writes, paces, persisted, stats>>

NextSingle ==
    \/ SingleCall
    \/ DispatchReturns
    \/ DispatchFails
    \/ DispatchRateLimited
    \/ Retry
    \/ RetryOverflows
    \/ SingleReturnsRecord
    \/ SingleRaises
    \/ SingleReturnsError

SpecSingle == InitSingle /\ [][NextSingle]_vars

(***************************************************************************)
(* summary_analyzer.py: analyze_summary_fields, from the 9 indicators on.  *)
(* results is the dict of the function, held in result.                    *)
(***************************************************************************)
\* sum(results.values()) over the 9 indicators, True counting 1
SumOfAbsent(v) ==
    LET acc[i \in 0..Len(Indicators)] ==
            IF i = 0 THEN 0
            ELSE acc[i - 1] + (IF v[Indicators[i]] THEN 0 ELSE 1)
    IN acc[Len(Indicators)]
SumOfValues(v) ==
    LET acc[i \in 0..Len(Indicators)] ==
            IF i = 0 THEN 0
            ELSE acc[i - 1] + (IF v[Indicators[i]] THEN 1 ELSE 0)
    IN acc[Len(Indicators)]

\* lines 97-102
RiskLevelAbove(score) ==
    IF score > 7 THEN "LOW"
    ELSE IF score > 4 THEN "MEDIUM"
    ELSE "HIGH"
RiskLevel(score) ==
    IF score >= 7 THEN "LOW"
    ELSE IF score >= 4 THEN "MEDIUM"
    ELSE "HIGH"

\* analyze_summary_fields has set the 9 indicators of results, to any values
InitSummary ==
    /\ \E on \in SUBSET IndicatorSet :
          result = [k |-> Indicators, v |-> IndicatorValues(on)]
    /\ pc = "SummaryFields"
    /\ model = DefaultModel
    /\ request = NoRequest
    /\ df = <<>>
    /\ stub = <<>>
    /\ resume_from = 0
    /\ prior = NoFile
    /\ artifact = NoFile
    /\ results = <<>>
    /\ idx = 0
    /\ analysis = JNull
    /\ policy_text = NaNText
    /\ depth = 0
    /\ remaining = 0
    /\ calls = 0
    /\ cooldowns = 0
    /\ slept = 0
    /\ writes = 0
    /\ paces = 0
    /\ persisted = 0
    /\ seeded = 0
    /\ processed = 0
    /\ errors = 0

\* lines 94-95
CalculateScore ==
    /\ pc = "SummaryFields"
    /\ result' = [k |-> result.k \o <<"privacy_compliance_score">>,
                  v |-> result.v @@ [privacy_compliance_score |-> SumOfValues(result.v)]]
    /\ pc' = "SummaryScored"
    /\ UNCHANGED <<input, request, seeded, artifact, results, idx, call, writes, paces, persisted,
                   stats>>

\* lines 97-104
AssignRiskLevel ==
    /\ pc = "SummaryScored"
    /\ result' = [k |-> result.k \o <<"privacy_risk_level">>,
                  v |-> result.v @@
                        [privacy_risk_level |->
                            RiskLevel(result.v["privacy_compliance_score"])]]
    /\ pc' = "SummaryDone"
    /\ UNCHANGED <<input, request, seeded, artifact, results, idx, call, writes, paces, persisted,
                   stats>>

NextSummary ==
    \/ CalculateScore
    \/ AssignRiskLevel

SpecSummary == InitSummary /\ [][NextSummary]_vars

(***************************************************************************)
(* Properties                                                              *)
(***************************************************************************)
\* the run is at a record of its own (not one below the resume offset), whose
\* row has been appended
RecordAppended == pc \in {"Checkpoint", "Pace"} /\ idx >= resume_from
LastRow == results[Len(results)]
\* the text is absent, or shorter than 100 characters once trimmed
AbsentOrShort(t) == t.isna \/ StrippedLen(t) < 100
\* the detail columns of a row: the third-party columns and the COPPA and GDPR columns
DetailKeys == {"third_party_list", "third_party_data_shared"}
              \cup Range(CoppaKeys) \cup Range(GdprKeys)
\* a row whose 9 indicators are false and whose detail columns are empty
AllFalseAndEmpty(r) ==
    /\ IndicatorSet \cup DetailKeys \subseteq DOMAIN r.v
    /\ \A c \in IndicatorSet : r.v[c] = FALSE
    /\ \A c \in DetailKeys \cap TextKeys : r.v[c] = ""
    /\ \A c \in DetailKeys \ TextKeys : r.v[c] = FALSE
\* the classifier's last answer for the record was its final one (no rate-limit
\* signal): every cool-down was followed by another call
FinalAnswerGiven == calls = cooldowns + 1

\* C1: a record at or above the resume offset whose text is absent or under 100
\* trimmed characters gets the row error = "empty_or_short_policy" with the 9
\* indicators false and the detail columns empty, and no classifier call is
\* dispatched for it.
C1_ShortCircuit ==
    /\ (RecordAppended /\ AbsentOrShort(row.policy_text)) =>
          /\ "error" \in DOMAIN LastRow.v
          /\ LastRow.v["error"] = "empty_or_short_policy"
          /\ LastRow.v["app_id"] = row.app_id
          /\ AllFalseAndEmpty(LastRow)
          /\ calls = 0
    /\ pc \in {"Dispatch", "Retry", "Returned"} => ~AbsentOrShort(row.policy_text)

C1_Witness ==
    /\ RecordAppended
    /\ row.policy_text = ShortText
    /\ LastRow.v["error"] = "empty_or_short_policy"
    /\ calls = 0

\* C2: when analyze_policy returns no result for a record that is not short, the
\* row appended has error = "analysis_failed", the 9 indicators false and the
\* detail columns empty: the short-circuit row but for the error text.
C2_FailedRow ==
    (RecordAppended /\ ~AbsentOrShort(row.policy_text) /\ analysis.t = "null") =>
        /\ "error" \in DOMAIN LastRow.v
        /\ LastRow.v["error"] = "analysis_failed"
        /\ AllFalseAndEmpty(LastRow)
        /\ LastRow.k = ShortRow(row.app_id, row.app_name).k
        /\ [LastRow.v EXCEPT !["error"] = "empty_or_short_policy"]
               = ShortRow(row.app_id, row.app_name).v

C2_Witness ==
    /\ RecordAppended
    /\ ~AbsentOrShort(row.policy_text)
    /\ analysis.t = "null"
    /\ stub[idx + 1].final.kind = "error"
    /\ LastRow.v["error"] = "analysis_failed"

\* C3: no outcome of a classification (a response body of any shape, a transport
\* or authentication error) makes process_batch abort: a run is never aborted on
\* a record whose call was answered, and a record whose answer was no conforming
\* body contributes the row error = "analysis_failed".
C3_NeverAbortsOnOutcome ==
    /\ ~(pc = "Aborted" /\ calls > 0 /\ FinalAnswerGiven)
    /\ (/\ RecordAppended
        /\ ~AbsentOrShort(row.policy_text)
        /\ FinalAnswerGiven
        /\ stub[idx + 1].final.kind = "error") =>
           /\ "error" \in DOMAIN LastRow.v
           /\ LastRow.v["error"] = "analysis_failed"

\* C4: in analyze_policy a failure that is no rate-limit signal is caught: the
\* call returns None, nothing is raised, and the request is not sent again
\* (one dispatch in that call).
C4_OtherFailureReturnsNone ==
    [][(pc = "Dispatch" /\ Outcome.kind = "error") =>
          /\ pc' = "Returned"
          /\ analysis'.t = "null"
          /\ calls' = calls + 1
          /\ depth' = depth
          /\ cooldowns' = cooldowns]_vars

C4_Witness ==
    /\ pc = "Returned"
    /\ stub[idx + 1].final.kind = "error"
    /\ FinalAnswerGiven
    /\ analysis.t = "null"

\* a dict with a top-level key that PolicyAnalysisResult does not declare
HasUndeclaredField(b) ==
    /\ b.t = "dict"
    /\ ~(DOMAIN b.v \subseteq IndicatorSet \cup {"third_party_list", "third_party_details",
                                                "coppa_analysis", "gdpr_analysis"})
\* a dict whose COPPA consent methods hold a value outside COPPAConsentMethod
HasUnknownEnum(b) ==
    /\ b.t = "dict"
    /\ "coppa_analysis" \in DOMAIN b.v
    /\ b.v["coppa_analysis"].t = "dict"
    /\ "consent_methods" \in DOMAIN b.v["coppa_analysis"].v
    /\ ~(Range(b.v["coppa_analysis"].v["consent_methods"]) \subseteq COPPAConsentMethod)

\* C5: a response with an undeclared top-level field, or with an enum value
\* outside its closed set, is rejected: its record gets the row
\* error = "analysis_failed", never a row built from the response.
C5_SchemaViolationRejected ==
    (/\ RecordAppended
     /\ ~AbsentOrShort(row.policy_text)
     /\ FinalAnswerGiven
     /\ stub[idx + 1].final.kind = "body"
     /\ \/ HasUndeclaredField(stub[idx + 1].final.body)
        \/ HasUnknownEnum(stub[idx + 1].final.body)) =>
        /\ "error" \in DOMAIN LastRow.v
        /\ LastRow.v["error"] = "analysis_failed"

\* the rows this run has appended for the record of the loop index
AppendedForRecord ==
    {j \in (seeded + 1)..Len(results) : results[j].v["app_id"] = row.app_id}

\* C6: for every n, when the classifier signals rate-limit n times for a record
\* and then answers a conforming body, analyze_policy sleeps n cool-downs of 60,
\* dispatches n + 1 calls, and the runner appends one row without an error
\* field for the record.
C6_RateLimitedThenSuccess ==
    LET n == stub[idx + 1].rl IN
    (/\ pc \in {"Returned", "Append", "Checkpoint", "Pace", "Aborted"}
     /\ idx >= resume_from
     /\ idx < Len(df)
     /\ ~AbsentOrShort(row.policy_text)
     /\ stub[idx + 1].final.kind = "body"
     /\ PolicyAnalysisResultValid(stub[idx + 1].final.body)) =>
        /\ pc # "Aborted"
        /\ cooldowns = n
        /\ slept = 60 * n
        /\ calls = n + 1
        /\ RecordAppended =>
              /\ "error" \notin DOMAIN LastRow.v
              /\ Cardinality(AppendedForRecord) = 1

\* C7: the retry on rate-limit has no budget: after every rate-limit signal, and
\* its cool-down, the request is dispatched again.
C7_RetryHasNoBudget == [][pc = "Retry" => pc' = "Dispatch"]_vars

\* C8: a checkpoint is written right after the row of index i is appended if and
\* only if i mod 50 = 0 or i is the last index, and the write replaces the
\* output file by the whole accumulator.
C8_CheckpointCadence ==
    [][/\ pc = "Append" =>
            /\ pc' = "Checkpoint"
            /\ results' = Append(results, result)
            /\ artifact' = artifact
       /\ pc = "Checkpoint" =>
            IF idx % 50 = 0 \/ idx = Len(df) - 1
            THEN /\ writes' = writes + 1
                 /\ artifact'.exists
                 /\ Len(artifact'.rows) = Len(results)
                 /\ \A j \in 1..Len(results) :
                       artifact'.rows[j]["app_id"] = results[j].v["app_id"]
            ELSE /\ writes' = writes
                 /\ artifact' = artifact
       /\ pc \notin {"Checkpoint", "FinalSave"} => artifact' = artifact]_vars

C8_Witness ==
    /\ pc = "Pace"
    /\ resume_from = 0
    /\ idx = 50
    /\ Len(df) = 52
    /\ writes = 2
    /\ Len(artifact.rows) = 51

\* the output file holds one row per input index 0..i, in input order
SnapshotComplete(i) ==
    /\ artifact.exists
    /\ Len(artifact.rows) = i + 1
    /\ \A j \in 1..(i + 1) : artifact.rows[j]["app_id"] = df[j].app_id

\* a checkpoint has just been written for the loop index
JustCheckpointed == pc = "Pace" /\ (idx % 50 = 0 \/ idx = Len(df) - 1)

\* C9 as stated: after every checkpoint write of any run, fresh or resumed with
\* any offset over any prior file, the output file holds one row for each input
\* index 0..i, in input order.
C9_AlwaysCompleteSnapshot == JustCheckpointed => SnapshotComplete(idx)

\* the run is fresh, or resumed at the number of rows of a prior file that holds
\* one row per input index below the offset, in input order
ConsistentStart ==
    \/ resume_from = 0
    \/ /\ seeded = resume_from
       /\ Len(results) >= seeded
       /\ \A j \in 1..seeded : results[j].v["app_id"] = df[j].app_id

\* C9 as amended: after every checkpoint write of a fresh run, or of a run resumed
\* at the number of rows of a prior file holding one row per input index below the
\* offset, the output file holds one row for each input index 0..i, in input order.
C9_CompleteSnapshotOfConsistentRun ==
    (JustCheckpointed /\ ConsistentStart) => SnapshotComplete(idx)

C9_Witness ==
    /\ JustCheckpointed
    /\ resume_from > 0
    /\ seeded = resume_from
    /\ SnapshotComplete(idx)

\* rows of the accumulator that the output file does not hold
Unsaved == Len(results) - persisted

\* C10 as stated: at every point of a run at most 49 rows of the accumulator are
\* not in the output file.
C10_AtMost49Unsaved == Unsaved <= 49

\* C10 as amended: at every point of a run at most 50 rows of the accumulator are
\* not in the output file, and 50 only between the append of a row whose index is
\* a multiple of 50 and its checkpoint write.
C10_AtMost50Unsaved ==
    /\ Unsaved <= 50
    /\ Unsaved = 50 => pc = "Checkpoint" /\ idx % 50 = 0

C10_Witness == Unsaved = 50 /\ pc = "Checkpoint" /\ idx = 50

\* every record of the input is answered by a conforming body or needs no call
ClassifierAlwaysSucceeds ==
    \A i \in 1..Len(df) :
        /\ stub[i].rl = 0
        /\ stub[i].final.kind = "body"
        /\ PolicyAnalysisResultValid(stub[i].final.body)

\* the indices whose append is followed by a snapshot, in a run over 101 records
ScenarioSnapshots == {0, 50, 100}

\* C11: a fresh run over exactly 101 records, short or well-formed, with a
\* classifier that always succeeds, writes snapshots after the indices 0, 50 and
\* 100 and after no other, ends with 101 rows in the accumulator, and leaves a
\* final output file with all 101 rows, one per record in input order.
C11_Scenario101 ==
    (resume_from = 0 /\ Len(df) = 101 /\ ClassifierAlwaysSucceeds) =>
        /\ pc # "Aborted"
        /\ pc = "Pace" =>
              /\ writes = Cardinality({i \in ScenarioSnapshots : i <= idx})
              /\ idx \in ScenarioSnapshots => artifact = ToCsv(results)
        /\ pc = "Completed" =>
              /\ writes = 3
              /\ Len(results) = 101
              /\ artifact.exists
              /\ Len(artifact.rows) = 101
              /\ \A j \in 1..101 : artifact.rows[j]["app_id"] = df[j].app_id

C11_Witness ==
    /\ pc = "Completed"
    /\ resume_from = 0
    /\ Len(df) = 101
    /\ ClassifierAlwaysSucceeds
    /\ writes = 3
    /\ \E j \in 1..101 :
          /\ "error" \in DOMAIN results[j].v
          /\ results[j].v["error"] = "empty_or_short_policy"
    /\ \E j \in 1..101 : "error" \notin DOMAIN results[j].v

\* the run was started with a positive offset over an existing output file
ResumedOverFile == resume_from > 0 /\ prior.exists /\ pc # "NotStarted"

\* the output file has been written by this run
WrittenByRun == writes > 0 \/ pc = "Completed"

\* line j of the file holds, column by column, what line j of the file f held
SameLine(file, f, j) ==
    /\ j <= Len(file.rows)
    /\ \A c \in Range(f.cols) :
          /\ c \in Range(file.cols)
          /\ file.rows[j][c] = f.rows[j][c]

\* C12: a run started with resume_from > 0 over an existing output file seeds the
\* accumulator with the rows of the file in their stored order, and every file it
\* writes begins with these rows, unchanged and in the same order.
C12_ResumedRowsKept ==
    ResumedOverFile =>
        /\ seeded = Len(prior.rows)
        /\ Len(results) >= seeded
        /\ \A j \in 1..seeded : results[j].v["app_id"] = prior.rows[j]["app_id"]
        /\ WrittenByRun => \A j \in 1..Len(prior.rows) : SameLine(artifact, prior, j)

\* the records of the input at or above the resume offset
OwnRecords == IF Len(df) > resume_from THEN Len(df) - resume_from ELSE 0

\* C13: a record below the resume offset causes nothing: no short-circuit row, no
\* classifier call, no append, no checkpoint write and no pacing delay; the loop
\* only moves on, and every other step of the loop is at a record at or above the
\* offset.
C13_SkippedRecordCausesNothing ==
    [][/\ (pc = "Pending" /\ idx < resume_from) =>
            /\ pc' \in {"Pending", "FinalSave"}
            /\ results' = results
            /\ result' = result
            /\ artifact' = artifact
            /\ writes' = writes
            /\ paces' = paces
            /\ calls' = calls
            /\ policy_text' = policy_text
            /\ analysis' = analysis
       /\ pc' \in {"Dispatch", "Retry", "Returned", "Append", "Checkpoint", "Pace"} =>
            idx' >= resume_from
       /\ pc' = "Completed" =>
            /\ Len(results') = seeded + OwnRecords
            /\ writes' <= OwnRecords
            /\ paces' = IF OwnRecords > 0 THEN OwnRecords - 1 ELSE 0]_vars

C13_Witness ==
    /\ pc = "Completed"
    /\ resume_from = 2
    /\ Len(df) = 3
    /\ seeded = 2
    /\ Len(results) = 3
    /\ paces = 0
    /\ writes = 1

\* the kind of input row i (counted from 1), and whether a run gets past every row
KindOfRow(i) == Kind(ReadPolicyText(df[i]), stub[i].rl, stub[i].final)
AllPassable == \A i \in 1..Len(df) : Passable(KindOfRow(i))

\* the rows and the output file of a fresh run over the input that completes
FullRunRows == [i \in 1..Len(df) |-> RowOf(i - 1, KindOfRow(i))]
FullRunFile == ToCsv(FullRunRows)

\* the output file holds the lines of f, all of them and no other
SameLines(file, f) ==
    /\ file.exists
    /\ Len(file.rows) = Len(f.rows)
    /\ \A j \in 1..Len(f.rows) : SameLine(file, f, j)

\* C14: after a run over N records has completed, running process_batch again on
\* the same input and output with resume_from = N dispatches no classifier call
\* and leaves the rows of the output file unchanged, in the same order.
C14_RerunIsIdempotent ==
    (AllPassable /\ prior = FullRunFile /\ resume_from = Len(df)) =>
        /\ pc \notin {"Dispatch", "Retry", "Returned", "Aborted"}
        /\ pc = "Completed" => SameLines(artifact, prior)

\* the output file was left by an earlier run over the same input: by one that
\* completed, or by one that stopped after the checkpoint of its record m - 1
LeftByEarlierRun ==
    \E m \in 0..Len(df) :
        /\ m = Len(df) \/ (m > 0 /\ ((m - 1) % 50 = 0))
        /\ prior = ToCsv(SubSeq(FullRunRows, 1, m))

\* every line of f is a line of the file
HoldsLinesOf(file, f) ==
    /\ file.exists
    /\ \A c \in Range(f.cols) : c \in Range(file.cols)
    /\ \A j \in 1..Len(f.rows) :
          \E i \in 1..Len(file.rows) :
              \A c \in Range(f.cols) : file.rows[i][c] = f.rows[j][c]

\* C15: with a deterministic classifier, for every resume offset k in 0..N and
\* every output file left by an earlier run over the same input, complete or
\* interrupted, the final file of the run resumed at k holds every line of the
\* final file of a full run that was not resumed (it is equal to it or a superset).
C15_ResumeEquivalence ==
    (AllPassable /\ LeftByEarlierRun /\ resume_from <= Len(df) /\ pc = "Completed") =>
        HoldsLinesOf(artifact, FullRunFile)

\* C16: when a run has stopped after a checkpoint write and a new run is started
\* on the same input with resume_from equal to the number of rows of the output
\* file, then with a deterministic classifier the new run completes with the file
\* an uninterrupted run leaves: one row per input record, in input order.
C16_LastCheckpointResumable ==
    (/\ AllPassable
     /\ LeftByEarlierRun
     /\ Len(prior.rows) > 0
     /\ resume_from = Len(prior.rows)) =>
        /\ pc # "Aborted"
        /\ pc = "Completed" =>
              /\ artifact.cols = FullRunFile.cols
              /\ SameLines(artifact, FullRunFile)

\* C17: after every processed record that is not the last of the input,
\* short-circuited, classified or failed, process_batch makes exactly one pacing
\* delay, after the record's append and checkpoint and before the next record is
\* examined; no pacing delay follows the last record.
C17_Pacing ==
    [][/\ pc = "Checkpoint" => pc' = "Pace" /\ idx' = idx
       /\ (pc = "Pace" /\ idx < Len(df) - 1) =>
            /\ paces' = paces + 1
            /\ idx' = idx + 1
            /\ pc' = "Pending"
            /\ results' = results
            /\ artifact' = artifact
       /\ (pc = "Pace" /\ idx = Len(df) - 1) =>
            /\ paces' = paces
            /\ pc' = "FinalSave"
       /\ pc # "Pace" => paces' = paces
       /\ pc' = "Pace" =>
            /\ Len(results') = seeded + (idx' - resume_from) + 1
            /\ paces' = idx' - resume_from
            /\ results'[Len(results')].v["app_id"] = df[idx' + 1].app_id]_vars

C17_Witness ==
    /\ pc = "Completed"
    /\ resume_from = 0
    /\ Len(df) = 3
    /\ paces = 2
    /\ "error" \notin DOMAIN results[1].v
    /\ "error" \in DOMAIN results[2].v
    /\ "error" \in DOMAIN results[3].v
    /\ results[2].v["error"] = "analysis_failed"
    /\ results[3].v["error"] = "empty_or_short_policy"

\* the lines of the file whose error cell is not empty
ErrorLines(file) ==
    IF "error" \in Range(file.cols)
    THEN {j \in 1..Len(file.rows) : file.rows[j]["error"] # ""}
    ELSE {}

\* C18: when process_batch reaches Completed the output file holds the whole
\* accumulator, written by a final save that is made in every case, also for an
\* empty input and when every record was skipped; the processed count is the
\* number of rows of the accumulator and the error count the number of its rows
\* whose error field is set.
C18_Completed ==
    pc = "Completed" =>
        /\ artifact.exists
        /\ artifact = ToCsv(results)
        /\ Len(artifact.rows) = Len(results)
        /\ \A j \in 1..Len(results) :
              /\ artifact.rows[j]["app_id"] = results[j].v["app_id"]
              /\ j \in ErrorLines(artifact) <=>
                    /\ "error" \in DOMAIN results[j].v
                    /\ results[j].v["error"] \in {"empty_or_short_policy", "analysis_failed"}
        /\ processed = Len(results)
        /\ errors = Cardinality(ErrorLines(artifact))

C18_Witness ==
    /\ pc = "Completed"
    /\ prior = NoFile
    /\ resume_from > Len(df)
    /\ Len(df) > 0
    /\ artifact.exists
    /\ processed = 0
    /\ errors = 0

\* C19: when analyze_policy returns a result for a record, the appended row has no
\* error field, carries the record's app_id and app_name, and holds each of the 9
\* indicators with the value of the result, false when the result has no such key.
C19_SuccessRow ==
    (/\ RecordAppended
     /\ ~AbsentOrShort(row.policy_text)
     /\ FinalAnswerGiven
     /\ analysis.t = "dict") =>
        /\ "error" \notin DOMAIN LastRow.v
        /\ LastRow.v["app_id"] = row.app_id
        /\ LastRow.v["app_name"] = row.app_name
        /\ \A k \in IndicatorSet :
              /\ k \in DOMAIN LastRow.v
              /\ LastRow.v[k] = (IF k \in DOMAIN analysis.v THEN analysis.v[k] ELSE FALSE)

\* without its marker, the dispatched text is the first 100,000 characters of t
First100000Of(text, t) ==
    /\ text.lead + text.core + text.trail = 100000
    /\ text.lead <= t.lead /\ text.core <= t.core /\ text.trail <= t.trail
    /\ text.lead < t.lead => text.core = 0
    /\ text.core < t.core => text.trail = 0

\* C20: analyze_policy dispatches a text longer than 100,000 characters as its
\* first 100,000 characters followed by the truncation marker, and still makes
\* the call; it dispatches a text of 100,000 characters or fewer unmodified.
C20_TruncationBoundary ==
    [][pc = "Dispatch" =>
          /\ calls' = calls + 1
          /\ policy_text' = policy_text
          /\ IF TextLen(row.policy_text) > 100000
             THEN /\ policy_text.marker = 1
                  /\ First100000Of(policy_text, row.policy_text)
                  /\ TextLen(policy_text) = 100000 + 13
             ELSE policy_text = row.policy_text]_vars

C20_Witness ==
    /\ pc = "Returned"
    /\ calls = 1
    /\ row.policy_text = OverTrailText
    /\ policy_text.marker = 1
    /\ policy_text.trail = 0

\* C21: in process_batch a text of exactly 99 trimmed characters is
\* short-circuited, with no classifier call, and a text of exactly 100 trimmed
\* characters is not: analyze_policy is invoked for it and the call is made.
C21_ShortCircuitBoundary ==
    [][/\ (pc = "Pending" /\ idx >= resume_from /\ ~row.policy_text.isna) =>
            /\ StrippedLen(row.policy_text) = 99 =>
                  /\ pc' = "Append"
                  /\ result'.v["error"] = "empty_or_short_policy"
                  /\ calls' = 0
            /\ StrippedLen(row.policy_text) = 100 =>
                  /\ pc' = "Dispatch"
                  /\ policy_text' = row.policy_text
       /\ pc = "Dispatch" => calls' = calls + 1]_vars

C21_Witness ==
    /\ pc = "Returned"
    /\ idx = 1
    /\ calls = 1
    /\ StrippedLen(ReadPolicyText(df[1])) = 99
    /\ TextLen(ReadPolicyText(df[1])) > 100
    /\ Len(results) = 1
    /\ results[1].v["error"] = "empty_or_short_policy"
    /\ StrippedLen(row.policy_text) = 100

\* the indicators of a dict that are true
TrueIndicators(v) == {k \in IndicatorSet : v[k]}

\* C22: for every assignment of the 9 indicators, privacy_compliance_score is the
\* number of indicators that are true, and privacy_risk_level is LOW iff the
\* score is at least 7, MEDIUM iff it is 4, 5 or 6, HIGH iff it is at most 3.
C22_ScoreAndLevel ==
    /\ pc \in {"SummaryScored", "SummaryDone"} =>
          /\ result.v["privacy_compliance_score"] = Cardinality(TrueIndicators(result.v))
          /\ result.v["privacy_compliance_score"] \in 0..9
    /\ pc = "SummaryDone" =>
          LET score == Cardinality(TrueIndicators(result.v))
              level == result.v["privacy_risk_level"]
          IN /\ level \in {"LOW", "MEDIUM", "HIGH"}
             /\ level = "LOW" <=> score >= 7
             /\ level = "MEDIUM" <=> (4 <= score /\ score <= 6)
             /\ level = "HIGH" <=> score <= 3

C22_Witness ==
    /\ pc = "SummaryDone"
    /\ result.v["privacy_compliance_score"] = 7
    /\ result.v["privacy_risk_level"] = "LOW"

\* HIGH < MEDIUM < LOW
LevelRank(level) ==
    CASE level = "HIGH" -> 0
      [] level = "MEDIUM" -> 1
      [] level = "LOW" -> 2

\* the indicators v with indicator k set
Flipped(v, k) == [j \in IndicatorSet |-> IF j = k THEN TRUE ELSE v[j]]

\* C23: for every assignment of the 9 indicators, setting one indicator that is
\* false never gives a lower privacy_compliance_score nor a worse
\* privacy_risk_level, in the order HIGH < MEDIUM < LOW.
C23_Monotonic ==
    pc = "SummaryDone" =>
        \A k \in IndicatorSet \ TrueIndicators(result.v) :
            /\ SumOfValues(Flipped(result.v, k)) >= result.v["privacy_compliance_score"]
            /\ LevelRank(RiskLevel(SumOfValues(Flipped(result.v, k))))
                  >= LevelRank(result.v["privacy_risk_level"])

C23_Witness ==
    /\ pc = "SummaryDone"
    /\ result.v["privacy_compliance_score"] = 3
    /\ result.v["privacy_risk_level"] = "HIGH"
    /\ \E k \in IndicatorSet \ TrueIndicators(result.v) :
          RiskLevel(SumOfValues(Flipped(result.v, k))) = "MEDIUM"

\* the dict carries the 9 indicators and a derived field
CarriesDerived(v) ==
    /\ IndicatorSet \subseteq DOMAIN v
    /\ {"privacy_compliance_score", "privacy_risk_level"} \cap DOMAIN v # {}

\* the derived fields that the dict carries follow from its 9 indicators
DerivedAgree(v) ==
    /\ "privacy_compliance_score" \in DOMAIN v =>
          v["privacy_compliance_score"] = SumOfValues(v)
    /\ "privacy_risk_level" \in DOMAIN v =>
          v["privacy_risk_level"] = RiskLevel(SumOfValues(v))

\* C24: a privacy_compliance_score or privacy_risk_level in a value returned by
\* analyze_policy, or in an output row, is the one recomputed from the 9
\* indicators of that value, whatever the classifier's response carried.
C24_DerivedNeverFromClassifier ==
    /\ (pc = "Returned" /\ analysis.t = "dict" /\ CarriesDerived(analysis.v)) =>
          DerivedAgree(analysis.v)
    /\ \A j \in 1..Len(results) :
          CarriesDerived(results[j].v) => DerivedAgree(results[j].v)

\* C25: on a successful classifier call analyze_policy returns the parsed body as
\* it is: every key of the body, the 9 indicators and also
\* privacy_compliance_score and privacy_risk_level when the body has them, is in
\* the returned value with the same value.
C25_BodyReturnedAsIs ==
    (/\ pc = "Returned"
     /\ FinalAnswerGiven
     /\ stub[idx + 1].final.kind = "body"
     /\ stub[idx + 1].final.body.t = "dict") =>
        /\ analysis.t = "dict"
        /\ \A k \in DOMAIN stub[idx + 1].final.body.v :
              /\ k \in DOMAIN analysis.v
              /\ analysis.v[k] = stub[idx + 1].final.body.v[k]

C25_Witness ==
    /\ pc = "Returned"
    /\ FinalAnswerGiven
    /\ stub[idx + 1].final.body = TestBody
    /\ analysis.t = "dict"
    /\ IndicatorSet \subseteq DOMAIN analysis.v
    /\ analysis.v["privacy_compliance_score"] = 9
    /\ analysis.v["privacy_risk_level"] = "LOW"

\* the columns that join a list of the result
JoinColumns ==
    {"third_party_list", "third_party_data_shared", "coppa_consent_methods",
     "coppa_exceptions", "gdpr_consent_methods", "gdpr_lawful_bases"}

\* the result holds its third-party list, its third-party details and the enum
\* lists of its COPPA and GDPR sections, all of them empty
AllCollectionsEmpty(a) ==
    /\ a.t = "dict"
    /\ {"third_party_list", "third_party_details", "coppa_analysis", "gdpr_analysis"}
          \subseteq DOMAIN a.v
    /\ a.v["third_party_list"] = <<>>
    /\ a.v["third_party_details"] = <<>>
    /\ a.v["coppa_analysis"].t = "dict"
    /\ a.v["gdpr_analysis"].t = "dict"
    /\ {"consent_methods", "exceptions_claimed"} \subseteq DOMAIN a.v["coppa_analysis"].v
    /\ {"consent_methods", "lawful_bases"} \subseteq DOMAIN a.v["gdpr_analysis"].v
    /\ a.v["coppa_analysis"].v["consent_methods"] = <<>>
    /\ a.v["coppa_analysis"].v["exceptions_claimed"] = <<>>
    /\ a.v["gdpr_analysis"].v["consent_methods"] = <<>>
    /\ a.v["gdpr_analysis"].v["lawful_bases"] = <<>>

\* C26: flattening a result whose third-party list, third-party details and
\* COPPA/GDPR enum lists are empty gives a row that has third_party_list,
\* third_party_data_shared and every enum-join column, each the empty string, in
\* the row and in the line written for it.
C26_EmptyCollectionsFlatten ==
    (/\ RecordAppended
     /\ ~AbsentOrShort(row.policy_text)
     /\ FinalAnswerGiven
     /\ AllCollectionsEmpty(analysis)) =>
        /\ \A c \in JoinColumns :
              /\ c \in Range(LastRow.k)
              /\ c \in DOMAIN LastRow.v
              /\ LastRow.v[c] = ""
        /\ JustCheckpointed =>
              \A c \in JoinColumns :
                  /\ c \in Range(artifact.cols)
                  /\ artifact.rows[Len(artifact.rows)][c] = ""

C26_Witness ==
    /\ JustCheckpointed
    /\ analysis = EmptyCollectionsBody
    /\ FinalAnswerGiven
    /\ LastRow.v["app_id"] = row.app_id
    /\ LastRow.v["third_party_data_shared"] = ""
    /\ LastRow.v["gdpr_lawful_bases"] = ""

\* the key is absent from the dict, or holds a value of the kind t
AbsentOr(v, key, t) == key \in DOMAIN v => v[key].t = t

\* the result is a dict in which optional items are absent and no item has
\* another type than the schema's
MissingOptional(a) ==
    /\ a.t = "dict"
    /\ AbsentOr(a.v, "coppa_analysis", "dict")
    /\ AbsentOr(a.v, "gdpr_analysis", "dict")
    /\ \/ {"third_party_list", "third_party_details", "coppa_analysis", "gdpr_analysis"}
             \ DOMAIN a.v # {}
       \/ {"consent_methods", "exceptions_claimed"} \ DOMAIN a.v["coppa_analysis"].v # {}
       \/ {"consent_methods", "lawful_bases"} \ DOMAIN a.v["gdpr_analysis"].v # {}

\* the enum list of a section of the result is absent
ListAbsent(a, section, list) ==
    \/ section \notin DOMAIN a.v
    \/ list \notin DOMAIN a.v[section].v

\* C27: flattening does not raise on a result with missing optional sub-fields:
\* when third_party_list, third_party_details, coppa_analysis, gdpr_analysis or
\* one of their enum lists is absent, the row is built, and the column of each
\* absent item is the empty string.
C27_FlattenToleratesAbsence ==
    [][(pc = "Returned" /\ MissingOptional(analysis)) =>
          /\ pc' = "Append"
          /\ Truthy(analysis) => "error" \notin DOMAIN result'.v
          /\ "third_party_list" \notin DOMAIN analysis.v =>
                result'.v["third_party_list"] = ""
          /\ "third_party_details" \notin DOMAIN analysis.v =>
                result'.v["third_party_data_shared"] = ""
          /\ ListAbsent(analysis, "coppa_analysis", "consent_methods") =>
                result'.v["coppa_consent_methods"] = ""
          /\ ListAbsent(analysis, "coppa_analysis", "exceptions_claimed") =>
                result'.v["coppa_exceptions"] = ""
          /\ ListAbsent(analysis, "gdpr_analysis", "consent_methods") =>
                result'.v["gdpr_consent_methods"] = ""
          /\ ListAbsent(analysis, "gdpr_analysis", "lawful_bases") =>
                result'.v["gdpr_lawful_bases"] = ""]_vars

C27_Witness ==
    /\ pc = "Append"
    /\ analysis = SparseBody
    /\ "error" \notin DOMAIN result.v
    /\ result.v["coppa_consent_methods"] = ""
    /\ result.v["gdpr_lawful_bases"] = ""
    /\ result.v["third_party_list"] = ""

\* the record of single-document mode carries the error
SingleHasError ==
    /\ "error" \in DOMAIN result.v
    /\ result.v["error"] = "analysis_failed"

\* the record of single-document mode holds the 9 indicators and the two
\* analyses as objects
SingleHasAnalysis ==
    /\ "error" \notin DOMAIN result.v
    /\ IndicatorSet \subseteq DOMAIN result.v
    /\ \A i \in IndicatorSet : result.v[i] \in BOOLEAN
    /\ {"coppa_analysis", "gdpr_analysis"} \subseteq DOMAIN result.v
    /\ result.v["coppa_analysis"].t = "dict"
    /\ result.v["gdpr_analysis"].t = "dict"

\* C28: analyze_single_file returns a record for whatever analyze_policy
\* returned; the record carries error = "analysis_failed" if and only if
\* analyze_policy returned no result (None), and otherwise it has no error field
\* and holds the 9 indicators with coppa_analysis and gdpr_analysis as objects.
C28_SingleRecord ==
    /\ pc = "SingleDone" =>
          /\ SingleHasError <=> analysis.t = "null"
          /\ analysis.t # "null" => SingleHasAnalysis
    /\ pc = "Aborted" => analysis.t = "null"

\* the input file has rows and no policy_text column
NoTextColumn ==
    /\ Len(df) > 0
    /\ \A i \in 1..Len(df) : "policy_text" \notin DOMAIN df[i]

\* the rows this run has appended so far
AppendedByRun == {j \in 1..Len(results) : j > seeded}

\* C29: over an input without the policy-text column the run never fails and
\* never stops before Completed, makes no classifier call, gives every record
\* it processes the row error = "empty_or_short_policy", and ends Completed
\* with one row per processed record, all of them written and counted as errors.
C29_AbsentTextColumn ==
    NoTextColumn =>
        /\ pc # "Aborted"
        /\ pc \notin {"Dispatch", "Retry", "Returned"}
        /\ calls = 0
        /\ pc # "Completed" => ENABLED Next
        /\ \A j \in AppendedByRun :
              /\ "error" \in DOMAIN results[j].v
              /\ results[j].v["error"] = "empty_or_short_policy"
              /\ resume_from + j - seeded \in 1..Len(df)
              /\ results[j].v["app_id"] = df[resume_from + j - seeded].app_id
        /\ pc = "Completed" =>
              /\ Len(results) - seeded =
                    IF resume_from < Len(df) THEN Len(df) - resume_from ELSE 0
              /\ artifact = ToCsv(results)
              /\ processed = Len(results)
              /\ errors = Len(results)

C29_Witness ==
    /\ NoTextColumn
    /\ pc = "Completed"
    /\ resume_from = 0
    /\ Len(results) = MaxRows
    /\ errors = MaxRows
    /\ \A j \in 1..MaxRows : artifact.rows[j]["error"] = "empty_or_short_policy"

\* the model names of ModelNames that hold "nano" in any mix of cases
NanoModels == {GptNano, GptUpperNano, GptDatedNano}

\* C30: the request of every classifier call names the selected model, holds no
\* temperature when the name of the model contains "nano" (in any mix of cases)
\* and temperature 0.1 for every other model; building the request never fails,
\* so every dispatch makes its call.
C30_TemperatureControl ==
    /\ calls > 0 =>
          /\ request # NoRequest
          /\ request.model = model
          /\ "temperature" \in DOMAIN request <=> model \notin NanoModels
          /\ "temperature" \in DOMAIN request => request.temperature = "0.1"
          /\ {"model", "messages", "response_format"} \subseteq DOMAIN request
    /\ pc = "Dispatch" =>
          ENABLED (DispatchReturns \/ DispatchFails \/ DispatchRateLimited)

C30_Witness ==
    /\ pc = "Returned"
    /\ model = GptUpperNano
    /\ calls = 2
    /\ analysis.t = "dict"
    /\ "temperature" \notin DOMAIN request
    /\ request.messages[2].content = policy_text

C32_RetryIdenticalRequest ==
    [][/\ (pc = "Retry" /\ pc' = "Dispatch") =>
             /\ policy_text' = policy_text
             /\ policy_text'.marker = IF TextLen(row.policy_text) > 100000 THEN 1 ELSE 0
       /\ (pc = "Dispatch" /\ calls > 0) =>
             /\ request' = request
             /\ request'.messages[2].content = policy_text]_vars

C32_Witness ==
    /\ pc = "Returned"
    /\ calls = 3
    /\ cooldowns = 2
    /\ TextLen(row.policy_text) > 100000
    /\ policy_text.marker = 1
    /\ TextLen(policy_text) = 100000 + TruncMarkerLen
    /\ request.messages[2].content = policy_text

\* the rows this run has appended once it is done with the record of index i
RowsAfterRecord(i) == IF i >= resume_from THEN i - resume_from + 1 ELSE 0

\* C33: every record at or above the resume offset contributes exactly one row,
\* in input order: while the run is at record idx the accumulator holds the
\* seeded rows and one row for each record from resume_from up to idx (idx
\* included once its row is appended), each row carries the app_id of its record
\* and is a short-circuit row, a failed row or a row without error field, a
\* short-circuit row exactly for a text that is absent or short; at Completed the
\* accumulator holds seeded + (N - resume_from) rows when resume_from <= N.
C33_OneRowPerRecordInOrder ==
    /\ pc \in {"Pending", "Dispatch", "Retry", "Returned", "Append"} =>
          Len(results) = seeded + (IF idx > resume_from THEN idx - resume_from ELSE 0)
    /\ pc \in {"Checkpoint", "Pace"} =>
          Len(results) = seeded + RowsAfterRecord(idx)
    /\ \A j \in AppendedByRun :
          LET i == resume_from + j - seeded IN
          /\ i \in 1..Len(df)
          /\ results[j].v["app_id"] = df[i].app_id
          /\ "error" \in DOMAIN results[j].v =>
                results[j].v["error"] \in {"empty_or_short_policy", "analysis_failed"}
          /\ ("error" \in DOMAIN results[j].v
                 /\ results[j].v["error"] = "empty_or_short_policy")
                <=> AbsentOrShort(ReadPolicyText(df[i]))
    /\ (pc = "Completed" /\ resume_from <= Len(df)) =>
          Len(results) = seeded + (Len(df) - resume_from)

C33_Witness ==
    /\ pc = "Completed"
    /\ resume_from = 1
    /\ seeded = 1
    /\ Len(results) = 3
    /\ "error" \in DOMAIN results[2].v
    /\ "error" \in DOMAIN results[3].v
    /\ results[2].v["error"] = "empty_or_short_policy"
    /\ results[3].v["error"] = "analysis_failed"
    /\ results[3].v["app_id"] = df[3].app_id

\* C34: for a document whose text is empty or under 100 trimmed characters,
\* analyze_single_file makes no classifier call and returns a record with
\* error = "empty_or_short_policy".
C34_SingleShortCircuits ==
    AbsentOrShort(row.policy_text) =>
        /\ pc \notin {"Dispatch", "Retry", "Returned", "Aborted"}
        /\ calls = 0
        /\ pc = "SingleDone" =>
              /\ "error" \in DOMAIN result.v
              /\ result.v["error"] = "empty_or_short_policy"

\* C35: every run of process_batch ends Completed (every classifier of the
\* model answers something other than a rate-limit signal after finitely many
\* signals).
C35_Terminates == <>(pc = "Completed")

\* C36: a run started with resume_from = 0 never reads the output file it finds:
\* its accumulator holds only rows of its own records, the file is left as found
\* until the checkpoint after record 0, which replaces it by the one row of that
\* record, and at Completed the file holds the rows of this run and no other.
C36_FreshRunIgnoresArtifact ==
    resume_from = 0 =>
        /\ seeded = 0
        /\ Len(results) <= Len(df)
        /\ \A j \in 1..Len(results) : results[j].v["app_id"] = df[j].app_id
        /\ writes = 0 /\ pc \notin {"Completed"} => artifact = prior
        /\ (pc = "Pace" /\ idx = 0) =>
              /\ writes = 1
              /\ artifact = ToCsv(<<results[1]>>)
              /\ Len(artifact.rows) = 1
              /\ artifact.rows[1]["app_id"] = df[1].app_id
        /\ pc = "Completed" =>
              /\ artifact = ToCsv(results)
              /\ Len(artifact.rows) = Len(df)
              /\ \A j \in 1..Len(df) : artifact.rows[j]["app_id"] = df[j].app_id

C36_Witness ==
    /\ resume_from = 0
    /\ prior = StaleFile
    /\ pc = "Pace"
    /\ idx = 0
    /\ Len(df) > 1
    /\ Len(artifact.rows) = 1
    /\ artifact.rows[1]["app_id"] = "id0"

\* C37: a run started with resume_from = k > 0 and no output file starts with an
\* empty accumulator and still skips the records below k: no call and no row
\* is made for them, and at Completed, for k <= N, the file holds exactly the
\* N - k rows of the records k..N-1, in input order.
C37_OffsetWithoutArtifact ==
    (resume_from > 0 /\ ~prior.exists) =>
        /\ seeded = 0
        /\ (pc \notin {"NotStarted", "FinalSave", "Completed"} /\ idx < resume_from) =>
              /\ pc = "Pending"
              /\ results = <<>>
              /\ calls = 0
        /\ \A j \in 1..Len(results) :
              /\ resume_from + j \in 1..Len(df)
              /\ results[j].v["app_id"] = df[resume_from + j].app_id
        /\ (pc = "Completed" /\ resume_from <= Len(df)) =>
              /\ artifact.exists
              /\ Len(artifact.rows) = Len(df) - resume_from
              /\ \A j \in 1..Len(artifact.rows) :
                    artifact.rows[j]["app_id"] = df[resume_from + j].app_id
              /\ \A i \in 1..resume_from : \A j \in 1..Len(artifact.rows) :
                    artifact.rows[j]["app_id"] # df[i].app_id

C37_Witness ==
    /\ resume_from = 1
    /\ ~prior.exists
    /\ pc = "Completed"
    /\ Len(df) = 3
    /\ Len(artifact.rows) = 2
    /\ artifact.rows[1]["app_id"] = "id1"
    /\ artifact.rows[2]["app_id"] = "id2"

====
